---- MODULE Spec2Model ----
(***************************************************************************)
(* A model of python-naabal: the BIG archive container (BigFile), the      *)
(* Gearbox stream cipher (GearboxCrypt), the encrypted archive reader      *)
(* (GearboxEncryptedBigFile) and the record framework                      *)
(* (StructuredFileSection).                                                *)
(***************************************************************************)
EXTENDS Integers, Sequences, FiniteSets, TLC

VARIABLES
    lists,      \* archive: the list objects; lists[0] is the class attribute BigFile._members
    ref,        \* archive: ref[i] is the list object instance i's _members resolves to
    given,      \* archive: given[i][n] counts the times name n was loaded into or added through instance i
    last,       \* archive: the last call made and what it returned or raised
    crypto,     \* cipher: the GearboxCrypt instance, or the error its construction raised
    call,       \* cipher: the last encrypt or decrypt call and what it returned or raised
    stream,     \* cipher: the encrypt_stream or decrypt_stream call in progress
    file,       \* reader: the bytes of the archive file
    reader,     \* reader: the GearboxEncryptedBigFile instance: _crypto, _handle and its cursor
    rcall,      \* reader: the last call made and what it returned or raised
    rtype,      \* record: the record type: its ENDIANNESS and STRUCTURE
    section,    \* record: the _data of the StructuredFileSection instance
    wire,       \* record: the bytes of the handle the section is loaded from and saved to
    scall,      \* record: the last call on the section and what it returned or raised
    derive      \* key derivation: the local variables of a _combine_keys call in progress

archiveVars == <<lists, ref, given, last>>
cipherVars == <<crypto, call, stream>>
readerVars == <<file, reader, rcall>>
recordVars == <<rtype, section, wire, scall>>
deriveVars == <<derive>>

\* What the calls on an archive leave alone, and the calls on a cipher.
notArchive == <<cipherVars, readerVars, recordVars, deriveVars>>
notCipher == <<archiveVars, readerVars, recordVars, deriveVars>>
notReader == <<archiveVars, cipherVars, recordVars, deriveVars>>
notRecord == <<archiveVars, cipherVars, readerVars, deriveVars>>
notDerive == <<archiveVars, cipherVars, readerVars, recordVars>>
vars == <<lists, ref, given, last, crypto, call, stream, file, reader, rcall,
          rtype, section, wire, scall, derive>>

(***************************************************************************)
(* Archive model: src/naabal/formats/big/__init__.py                       *)
(***************************************************************************)

\* Bound: the most members the list objects of the model hold together.
MaxMembers == 3

\* The archive instances of the model.
Inst == {1, 2}

\* The list object of the class attribute BigFile._members.
ClassList == 0

\* Member names are strings, modelled as sequences of character codes.
NameSet == {<<1>>, <<1, 2>>, <<2>>}

\* Member descriptors: a name and a size (real_size = stored_size = st_size).
MemberSet == {[name |-> <<1>>, size |-> 0], [name |-> <<1>>, size |-> 1],
              [name |-> <<1, 2>>, size |-> 0], [name |-> <<2>>, size |-> 0]}

\* All sequences over S of length at most n.
SeqUpTo(S, n) == UNION {[1..k -> S] : k \in 0..n}

\* Python's str comparison a < b: by character code, a proper prefix is smaller.
RECURSIVE StrLess(_, _)
StrLess(a, b) ==
    IF b = <<>> THEN FALSE
    ELSE IF a = <<>> THEN TRUE
    ELSE IF Head(a) # Head(b) THEN Head(a) < Head(b)
    ELSE StrLess(Tail(a), Tail(b))

StrLeq(a, b) == a = b \/ StrLess(a, b)

\* Insert m into the sorted sequence s after every element whose key is <= m's
\* (list.sort is stable).
RECURSIVE InsertByName(_, _)
InsertByName(m, s) ==
    IF s = <<>> THEN <<m>>
    ELSE IF StrLess(m.name, Head(s).name) THEN <<m>> \o s
    ELSE <<Head(s)>> \o InsertByName(m, Tail(s))

RECURSIVE SortByName(_)
SortByName(s) ==
    IF s = <<>> THEN <<>>
    ELSE InsertByName(s[Len(s)], SortByName(SubSeq(s, 1, Len(s) - 1)))

\* A sort that compares the names the wrong way round.
RECURSIVE SortMembersDescending(_)
SortMembersDescending(s) ==
    IF s = <<>> THEN <<>>
    ELSE LET rest == SortMembersDescending(SubSeq(s, 1, Len(s) - 1))
             m == s[Len(s)]
             before == SelectSeq(rest, LAMBDA x : ~StrLess(x.name, m.name))
             after == SelectSeq(rest, LAMBDA x : StrLess(x.name, m.name))
         IN before \o <<m>> \o after

\* BigFile._sort_members: self._members.sort(key=lambda m: m.name)
SortMembers(s) == SortByName(s)

\* The members held by all list objects together.
TotalMembers == Len(lists[ClassList]) + Len(lists[1]) + Len(lists[2])

\* BigFile.get_members
GetMembers(i) == lists[ref[i]]

\* BigFile.get_filenames
GetFilenames(i) == [k \in 1..Len(GetMembers(i)) |-> GetMembers(i)[k].name]

\* A scan that keeps going after a match and so returns the last one.
RECURSIVE ScanMembersLast(_, _)
ScanMembersLast(s, filename) ==
    IF s = <<>> THEN [kind |-> "KeyError", key |-> filename]
    ELSE IF s[Len(s)].name = filename THEN [kind |-> "member", member |-> s[Len(s)]]
    ELSE ScanMembersLast(SubSeq(s, 1, Len(s) - 1), filename)

\* The for loop of BigFile.get_member: the first member whose name is filename,
\* KeyError when the loop ends without returning.
RECURSIVE ScanMembers(_, _)
ScanMembers(s, filename) ==
    IF s = <<>> THEN [kind |-> "KeyError", key |-> filename]
    ELSE IF Head(s).name = filename THEN [kind |-> "member", member |-> Head(s)]
    ELSE ScanMembers(Tail(s), filename)

\* The number of times name n occurs in the sequence of names s.
Count(s, n) == Cardinality({k \in DOMAIN s : s[k] = n})

\* The names of a sequence of members.
NamesOf(ms) == [k \in DOMAIN ms |-> ms[k].name]

\* The record of a call: the operation, the instance it was called on, whether
\* it sorts, the names passed to it and what it returned or raised.
Call(op, i, sorts, names, result) ==
    [op |-> op, inst |-> i, sorts |-> sorts, names |-> names, result |-> result]

None == [kind |-> "None"]

\* BigFile.load: self._members = self._get_members() binds a new list object
\* to the instance, then sorts it. The member table read is an input.
Load(i, table) ==
    /\ TotalMembers - Len(lists[i]) + Len(table) <= MaxMembers
    /\ ref' = [ref EXCEPT ![i] = i]
    /\ lists' = [lists EXCEPT ![i] = SortMembers(table)]
    /\ given' = [given EXCEPT ![i] = [n \in NameSet |-> Count(NamesOf(table), n)]]
    /\ last' = Call("load", i, TRUE, NamesOf(table), None)
    /\ UNCHANGED notArchive

\* BigFile.add
Add(i, biginfo, sort_after) ==
    /\ TotalMembers < MaxMembers
    /\ LET appended == Append(GetMembers(i), biginfo)
       IN lists' = [lists EXCEPT ![ref[i]] =
                        IF sort_after THEN SortMembers(appended) ELSE appended]
    /\ given' = [given EXCEPT ![i][biginfo.name] = @ + 1]
    /\ last' = Call("add", i, sort_after, <<biginfo.name>>, None)
    /\ UNCHANGED <<ref, notArchive>>

\* BigFile.add_all: every walked file that is not excluded is added with the
\* sort deferred, and the list is sorted once at the end.
AddAll(i, found) ==
    /\ TotalMembers + Len(found) <= MaxMembers
    /\ lists' = [lists EXCEPT ![ref[i]] = SortMembers(GetMembers(i) \o found)]
    /\ given' = [given EXCEPT ![i] = [n \in NameSet |-> @[n] + Count(NamesOf(found), n)]]
    /\ last' = Call("add_all", i, TRUE, NamesOf(found), None)
    /\ UNCHANGED <<ref, notArchive>>

\* BigFile.get_member
GetMember(i, filename) ==
    /\ last' = Call("get_member", i, FALSE, <<filename>>,
                     ScanMembers(GetMembers(i), filename))
    /\ UNCHANGED <<lists, ref, given, notArchive>>


(***************************************************************************)
(* Stream cipher: src/naabal/util/gbx_crypt.py, src/naabal/util/__init__.py *)
(***************************************************************************)

\* Bound: the longest byte string passed to encrypt, decrypt or a stream.
MaxData == 3

\* Bound: the largest offset argument and the largest stream start position.
MaxOffset == 2

\* Bound: the largest chunk size of a cipher instance.
MaxChunk == 2

\* The byte values the inputs are drawn from.
DataBytes == {1, 255}

Min(a, b) == IF a < b THEN a ELSE b

\* A Python int too wide for a machine word is held as its base-256 digits,
\* least significant first; Digit(v, k) is digit k (from 1), 0 past the end.
Digit(v, k) == IF k <= Len(v) THEN v[k] ELSE 0

\* Bitwise operations on two bytes, bit by bit.
RECURSIVE Xor8(_, _, _)
Xor8(a, b, n) ==
    IF n = 0 THEN 0
    ELSE (((a % 2) + (b % 2)) % 2) + 2 * Xor8(a \div 2, b \div 2, n - 1)

RECURSIVE Or8(_, _, _)
Or8(a, b, n) ==
    IF n = 0 THEN 0
    ELSE (IF (a % 2) + (b % 2) > 0 THEN 1 ELSE 0) + 2 * Or8(a \div 2, b \div 2, n - 1)

\* a ^ b and a | b on ints.
XorInt(a, b) == [k \in 1..(IF Len(a) > Len(b) THEN Len(a) ELSE Len(b)) |->
                    Xor8(Digit(a, k), Digit(b, k), 8)]
OrInt(a, b) == [k \in 1..(IF Len(a) > Len(b) THEN Len(a) ELSE Len(b)) |->
                    Or8(Digit(a, k), Digit(b, k), 8)]

\* a + b on ints: the digits are added from the least significant with carry.
RECURSIVE AddInt(_, _, _)
AddInt(a, b, carry) ==
    IF a = <<>> /\ b = <<>> THEN (IF carry = 0 THEN <<>> ELSE <<carry>>)
    ELSE LET sum == Digit(a, 1) + Digit(b, 1) + carry
         IN <<sum % 256>> \o AddInt(IF a = <<>> THEN <<>> ELSE Tail(a),
                                    IF b = <<>> THEN <<>> ELSE Tail(b),
                                    sum \div 256)

\* v << 8 and v >> (8 * n) on ints.
ShiftLeft8(v) == <<0>> \o v
ShiftRightBytes(v, n) == IF Len(v) <= n THEN <<>> ELSE SubSeq(v, n + 1, Len(v))

\* The digits of a natural number.
RECURSIVE ToDigits(_)
ToDigits(n) == IF n = 0 THEN <<>> ELSE <<n % 256>> \o ToDigits(n \div 256)

\* ROTL = lambda uint32, bits: ((uint32 << bits) | (uint32 >> (32 - bits))), bits = 8
ROTL8(uint32) == OrInt(ShiftLeft8(uint32), ShiftRightBytes(uint32, 3))

\* SPLIT_TO_BYTES: (uint32 & (0xFF << s)) >> s for s in 0, 8, 16, 24
SPLIT_TO_BYTES(uint32) == [k \in 1..4 |-> Digit(uint32, k)]

\* CAST_TO_CHAR = lambda uint32: uint32 & 0xFF
CAST_TO_CHAR(uint32) == Digit(uint32, 1)

\* COMBINE_BYTES of a 4-byte chunk: the little-endian word of the bytes.
COMBINE_BYTES(bytes) == bytes

\* split_by(iterable, chunk_size): the slices [pos:pos+chunk_size]
split_by(iterable, chunk_size) ==
    [k \in 1..((Len(iterable) + chunk_size - 1) \div chunk_size) |->
        SubSeq(iterable, (k - 1) * chunk_size + 1,
               Min(k * chunk_size, Len(iterable)))]

\* The master key of the archive format: 1024 bytes, 256 little-endian words.
MASTER_KEY == [p \in 1..1024 |-> ((p - 1) * 37 + 11) % 256]

\* The master keys of the model.
MasterKeys ==
    {MASTER_KEY, [p \in 1..1024 |-> ((p - 1) * (p - 1) + 3 * (p - 1) + 101) % 256]}

\* The local keys of the model: empty, one word, two words, and lengths that
\* are no multiple of 4.
LocalKeys ==
    {<<>>, <<1, 2, 3, 4>>, <<255, 0, 0, 0>>, <<0, 0, 0, 0, 254, 255, 255, 255>>,
     <<7, 9>>, <<1, 2, 3, 4, 5>>}

\* The four inner rounds j = 0..3 of _combine_keys:
\* c = global_key[CAST_TO_CHAR(c ^ bytes[j])] ^ (c >> 8)
RECURSIVE InnerRounds(_, _, _, _)
InnerRounds(c, bytes, global_words, j) ==
    IF j > 4 THEN c
    ELSE InnerRounds(
            XorInt(global_words[CAST_TO_CHAR(XorInt(c, <<bytes[j]>>)) + 1],
                   ShiftRightBytes(c, 1)),
            bytes, global_words, j + 1)

\* The table indices of the four inner rounds:
\* CAST_TO_CHAR(c ^ bytes[j]) for j = 0..3, c as the rounds leave it.
RECURSIVE InnerIndices(_, _, _, _)
InnerIndices(c, bytes, global_words, j) ==
    IF j > 4 THEN <<>>
    ELSE <<CAST_TO_CHAR(XorInt(c, <<bytes[j]>>))>>
            \o InnerIndices(
                    XorInt(global_words[CAST_TO_CHAR(XorInt(c, <<bytes[j]>>)) + 1],
                           ShiftRightBytes(c, 1)),
                    bytes, global_words, j + 1)

\* bytes = SPLIT_TO_BYTES(ROTL(c + self._data_size, 8))
SubRoundBytes(c, data_size) == SPLIT_TO_BYTES(ROTL8(AddInt(c, data_size, 0)))

\* The sub-rounds b = 0..3 of one word of the local key: the bytes they store
\* in combined_key[i + b].
RECURSIVE SubRounds(_, _, _, _)
SubRounds(c, data_size, global_words, b) ==
    IF b > 3 THEN <<>>
    ELSE LET bytes == SubRoundBytes(c, data_size)
             c2 == InnerRounds(c, bytes, global_words, 1)
         IN <<CAST_TO_CHAR(c2)>> \o SubRounds(c2, data_size, global_words, b + 1)

RECURSIVE CombineBlocks(_, _, _, _)
CombineBlocks(local_words, data_size, global_words, k) ==
    IF k > Len(local_words) THEN <<>>
    ELSE SubRounds(local_words[k], data_size, global_words, 0)
            \o CombineBlocks(local_words, data_size, global_words, k + 1)

\* GearboxCrypt._combine_keys. With a key size that is no multiple of 4 the
\* store into combined_key[i + b] runs past bytearray(key_size): IndexError.
CombineKeys(key_size, data_size, local_key, global_key) ==
    LET local_words == [k \in DOMAIN split_by(local_key, 4) |->
                            COMBINE_BYTES(split_by(local_key, 4)[k])]
        global_words == [k \in DOMAIN split_by(global_key, 4) |->
                            COMBINE_BYTES(split_by(global_key, 4)[k])]
    IN IF key_size % 4 # 0 THEN [kind |-> "IndexError"]
       ELSE [kind |-> "bytes",
             bytes |-> CombineBlocks(local_words, ToDigits(data_size), global_words, 1)]

\* GearboxCrypt.__init__
GearboxCrypt(data_size, local_key, global_key, chunk_size) ==
    LET combined == CombineKeys(Len(local_key), data_size, local_key, global_key)
    IN IF combined.kind # "bytes" THEN combined
       ELSE [kind |-> "GearboxCrypt", chunk_size |-> chunk_size,
             data_size |-> data_size, key_size |-> Len(local_key),
             encryption_key |-> combined.bytes]

\* A key stream that starts at the key's first byte whatever the offset.
KeyStreamFromZero(c, length, start_pos) ==
    IF length > 0 /\ c.key_size = 0 THEN [kind |-> "ZeroDivisionError"]
    ELSE [kind |-> "bytes",
          bytes |-> [k \in 1..length |-> c.encryption_key[((k - 1) % c.key_size) + 1]]]

\* GearboxCrypt._key_stream: key[i % ks] for i in xrange(start_pos, start_pos + length);
\* the generator raises ZeroDivisionError at its first element when ks is 0.
KeyStream(c, length, start_pos) ==
    IF length > 0 /\ c.key_size = 0 THEN [kind |-> "ZeroDivisionError"]
    ELSE [kind |-> "bytes",
          bytes |-> [k \in 1..length |->
                        c.encryption_key[((start_pos + k - 1) % c.key_size) + 1]]]

\* GearboxCrypt.decrypt: 0xFF & (c + k) over izip(data, key_data)
CipherDecrypt(c, data, offset) ==
    LET key_data == KeyStream(c, Len(data), offset)
    IN IF key_data.kind # "bytes" THEN key_data
       ELSE [kind |-> "bytes",
             bytes |-> [k \in DOMAIN data |-> (data[k] + key_data.bytes[k]) % 256]]

\* GearboxCrypt.encrypt: 0xFF & (c - k) over izip(data, key_data)
CipherEncrypt(c, data, offset) ==
    LET key_data == KeyStream(c, Len(data), offset)
    IN IF key_data.kind # "bytes" THEN key_data
       ELSE [kind |-> "bytes",
             bytes |-> [k \in DOMAIN data |-> (data[k] - key_data.bytes[k]) % 256]]

NoCall == [op |-> "none"]
NoStream == [pc |-> "idle"]

\* A call of encrypt on plain data.
Encrypt(data, offset) ==
    /\ crypto.kind = "GearboxCrypt"
    /\ stream.pc = "idle"
    /\ call' = [op |-> "encrypt", data |-> data, offset |-> offset,
                result |-> CipherEncrypt(crypto, data, offset)]
    /\ UNCHANGED <<crypto, stream, notCipher>>

\* A call of decrypt on given data.
Decrypt(data, offset) ==
    /\ crypto.kind = "GearboxCrypt"
    /\ stream.pc = "idle"
    /\ call' = [op |-> "decrypt", data |-> data, offset |-> offset,
                result |-> CipherDecrypt(crypto, data, offset)]
    /\ UNCHANGED <<crypto, stream, notCipher>>

\* A call of decrypt on what the last encrypt returned, at the same offset.
DecryptEncrypted ==
    /\ crypto.kind = "GearboxCrypt"
    /\ stream.pc = "idle"
    /\ call.op = "encrypt"
    /\ call.result.kind = "bytes"
    /\ call' = [op |-> "decrypt_encrypted", data |-> call.result.bytes,
                offset |-> call.offset, plain |-> call.data,
                result |-> CipherDecrypt(crypto, call.result.bytes, call.offset)]
    /\ UNCHANGED <<crypto, stream, notCipher>>

\* input_buffer.read(size) at position pos, for size >= 0.
ReadAt(buffer, pos, size) ==
    IF pos >= Len(buffer) THEN <<>>
    ELSE SubSeq(buffer, pos + 1, Min(pos + size, Len(buffer)))

\* A stream that forgets to advance its offset.
NextOffsetStuck(offset, chunk) == offset

\* offset += len(chunk)
NextOffset(offset, chunk) == offset + Len(chunk)

\* decrypt_stream / encrypt_stream up to the first read:
\* start_pos = input_buffer.tell(); offset += start_pos; chunk = read(chunk_size)
StreamStart(kind, input, start_pos, offset) ==
    /\ crypto.kind = "GearboxCrypt"
    /\ stream.pc = "idle"
    /\ LET chunk == ReadAt(input, start_pos, crypto.chunk_size)
       IN stream' = [pc |-> "loop", kind |-> kind, input |-> input,
                     start_pos |-> start_pos, offset_arg |-> offset,
                     offset |-> offset + start_pos,
                     chunk |-> chunk, pos |-> start_pos + Len(chunk),
                     output |-> <<>>]
    /\ call' = NoCall
    /\ UNCHANGED <<crypto, notCipher>>

\* One pass of the while loop: write the chunk's cipher, advance the offset,
\* read the next chunk. The loop ends at an empty chunk and the call returns
\* input_buffer.tell() - start_pos.
StreamStep ==
    /\ stream.pc = "loop"
    /\ IF stream.chunk = <<>>
       THEN stream' = [stream EXCEPT !.pc = "returned",
                                     !.chunk = <<>>] @@
                      [result |-> stream.pos - stream.start_pos]
       ELSE LET out == IF stream.kind = "decrypt_stream"
                       THEN CipherDecrypt(crypto, stream.chunk, stream.offset)
                       ELSE CipherEncrypt(crypto, stream.chunk, stream.offset)
                next == ReadAt(stream.input, stream.pos, crypto.chunk_size)
            IN IF out.kind # "bytes"
               THEN stream' = [stream EXCEPT !.pc = "raised"] @@ [error |-> out]
               ELSE stream' = [stream EXCEPT !.output = @ \o out.bytes,
                                             !.offset = NextOffset(@, stream.chunk),
                                             !.chunk = next,
                                             !.pos = @ + Len(next)]
    /\ UNCHANGED <<crypto, call, notCipher>>

\* The caller takes the result and the cipher is free for the next call.
StreamDone ==
    /\ stream.pc \in {"returned", "raised"}
    /\ stream' = NoStream
    /\ UNCHANGED <<crypto, call, notCipher>>

RecordIdle ==
    /\ rtype = [ENDIANNESS |-> "<", STRUCTURE |-> <<>>]
    /\ section = <<>>
    /\ wire = <<>>
    /\ scall = NoCall

ReaderIdle ==
    /\ file = <<>>
    /\ reader = [crypto |-> None, handle |-> "file", pos |-> 0, table_read |-> FALSE]
    /\ rcall = NoCall

ArchiveIdle ==
    /\ lists = [l \in {ClassList} \cup Inst |-> <<>>]
    /\ ref = [i \in Inst |-> ClassList]
    /\ given = [i \in Inst |-> [n \in NameSet |-> 0]]
    /\ last = Call("init", 1, FALSE, <<>>, None)

\* No _combine_keys call is in progress.
NoDerive == [pc |-> "idle"]

CipherIdle ==
    /\ derive = NoDerive
    /\ crypto = [kind |-> "None"]
    /\ call = NoCall
    /\ stream = NoStream

\* A cipher constructed for some data size, local key, master key and chunk size.
CipherInit ==
    /\ ArchiveIdle
    /\ ReaderIdle
    /\ RecordIdle
    /\ derive = NoDerive
    /\ \E data_size \in {300}, local_key \in LocalKeys,
          global_key \in MasterKeys, chunk_size \in 1..MaxChunk :
            crypto = GearboxCrypt(data_size, local_key, global_key, chunk_size)
    /\ call = NoCall
    /\ stream = NoStream

CipherNext ==
    \/ \E data \in SeqUpTo(DataBytes, MaxData), offset \in 0..MaxOffset :
            Encrypt(data, offset)
    \/ \E data \in SeqUpTo(DataBytes, MaxData), offset \in 0..MaxOffset :
            Decrypt(data, offset)
    \/ DecryptEncrypted
    \/ \E kind \in {"decrypt_stream", "encrypt_stream"},
          input \in SeqUpTo(DataBytes, MaxData),
          start_pos \in 0..MaxOffset, offset \in 0..MaxOffset :
            StreamStart(kind, input, start_pos, offset)
    \/ StreamStep
    \/ StreamDone

CipherSpec == CipherInit /\ [][CipherNext]_vars

(***************************************************************************)
(* Encrypted archive reader: GearboxEncryptedBigFile,                      *)
(* src/naabal/formats/big/__init__.py                                      *)
(***************************************************************************)

ENCRYPTION_KEY_MARKER == 0
ENCRYPTION_KEY_MAX_SIZE == 1024

\* Bound: the largest positive size passed to read.
MaxRead == 3

\* Bound: the size of the header record that load and check_format read first.
HeaderSize == 2

\* struct.pack('<L', n) and struct.pack('<H', n)
PackL(n) == <<n % 256, (n \div 256) % 256, (n \div 65536) % 256, n \div 16777216>>
PackH(n) == <<n % 256, n \div 256>>

\* struct.unpack of a little-endian unsigned integer; struct.error when the
\* data is not of the size of the format.
RECURSIVE FromDigits(_)
FromDigits(bytes) ==
    IF bytes = <<>> THEN 0 ELSE Head(bytes) + 256 * FromDigits(Tail(bytes))

Unpack(size, data) ==
    IF Len(data) # size THEN [kind |-> "struct.error"]
    ELSE [kind |-> "int", value |-> FromDigits(data)]

\* Byte p (from 0) of the payload of the model's files.
PayloadByte(p) == (p * 7 + 3) % 128

Payload(n) == [k \in 1..n |-> PayloadByte(k - 1)]

\* A key file of n bytes.
KeyBytes(n) == [k \in 1..n |-> (k * 5 + 1) % 128]

\* The file bodies of the model, each without its last four bytes: a payload,
\* the marker, the key length and the key, well formed and not.
Bodies ==
    {Payload(12) \o PackL(0) \o PackH(4) \o KeyBytes(4),
     Payload(11) \o PackL(0) \o PackH(0),
     Payload(12) \o PackL(0) \o PackH(8) \o KeyBytes(8),
     Payload(12) \o PackL(1) \o PackH(4) \o KeyBytes(4),
     Payload(12) \o PackL(16777216) \o PackH(4) \o KeyBytes(4),
     Payload(12) \o PackL(0) \o PackH(1025) \o KeyBytes(4),
     Payload(12) \o PackL(0) \o PackH(1024) \o KeyBytes(4),
     Payload(12) \o PackL(0) \o PackH(5) \o KeyBytes(5),
     Payload(12) \o PackL(0),
     Payload(3),
     <<>>}

\* The values of the last four bytes of the model's files.
Backptrs == (0..10) \cup {14, 15, 18, 20}

Files == {body \o PackL(b) : body \in Bodies, b \in Backptrs}
            \cup {Payload(3), <<>>}

\* The size argument of a read: None, or an integer.
NoneSize == [none |-> TRUE, n |-> 0]
IntSize(n) == [none |-> FALSE, n |-> n]

\* file.read(size) of the file object, from position pos: None is no integer
\* (TypeError), a negative size reads to the end of the file.
FileRead(bytes, pos, size) ==
    IF size.none THEN [kind |-> "TypeError", pos |-> pos]
    ELSE LET n == IF size.n < 0 THEN Len(bytes) ELSE size.n
             data == ReadAt(bytes, pos, n)
         IN [kind |-> "bytes", bytes |-> data, pos |-> pos + Len(data)]

\* FileInFile(parent, 0, length).read(size): the read is scoped to the first
\* length bytes; a size of None or below 0 reads to the end of the view.
ViewRead(bytes, length, pos, size) ==
    LET scoped == SubSeq(bytes, 1, Min(length, Len(bytes)))
        n == IF size.none THEN Len(scoped)
             ELSE IF size.n < 0 THEN Len(scoped) ELSE size.n
        data == ReadAt(scoped, pos, n)
    IN [kind |-> "bytes", bytes |-> data, pos |-> pos + Len(data)]

\* self._handle.read(size)
HandleRead(r, bytes, size) ==
    IF r.handle = "file" THEN FileRead(bytes, r.pos, size)
    ELSE ViewRead(bytes, r.crypto.data_size, r.pos, size)

\* GearboxEncryptedBigFile._read_encrypted
ReadEncrypted(r, bytes, size) ==
    LET raw == HandleRead(r, bytes, size)
        plain == CipherDecrypt(r.crypto, raw.bytes, r.pos)
    IN IF raw.kind # "bytes" THEN raw
       ELSE IF plain.kind # "bytes" THEN [kind |-> plain.kind, pos |-> raw.pos]
       ELSE [kind |-> "bytes", bytes |-> plain.bytes, pos |-> raw.pos]

\* GearboxEncryptedBigFile.read: data_size is self._crypto._data_size, an
\* AttributeError while _crypto is None.
ReaderReadOp(r, bytes, size) ==
    IF r.crypto.kind = "None" THEN [kind |-> "AttributeError", pos |-> r.pos]
    ELSE LET data_size == r.crypto.data_size
             cur_pos == r.pos
         IN IF cur_pos < data_size
            THEN IF size.none
                 THEN ReadEncrypted(r, bytes, IntSize(data_size - cur_pos))
                 ELSE IF cur_pos + size.n > data_size
                      THEN ReadEncrypted(r, bytes, IntSize(data_size - cur_pos))
                      ELSE ReadEncrypted(r, bytes, size)
            ELSE HandleRead(r, bytes, size)

GearboxEncryptionException == [kind |-> "GearboxEncryptionException"]

\* A size check that lets one byte too many through.
KeySizeAllowedOffByOne(encryption_key_bytes) ==
    encryption_key_bytes <= ENCRYPTION_KEY_MAX_SIZE + 1

\* encryption_key_bytes <= self.ENCRYPTION_KEY_MAX_SIZE
KeySizeAllowed(encryption_key_bytes) ==
    encryption_key_bytes <= ENCRYPTION_KEY_MAX_SIZE

\* GearboxEncryptedBigFile._load_encryption on the file object: the cipher it
\* returns or the exception it raises, and where it leaves the cursor.
LoadEncryption(bytes) ==
    IF Len(bytes) < 4 THEN [result |-> [kind |-> "IOError"], pos |-> 0]
    ELSE
    LET eof == Len(bytes)
        last_int_loc == eof - 4
        marker_offset == Unpack(4, ReadAt(bytes, last_int_loc, 4)).value
        encrypted_data_size == eof - marker_offset
        marker_data == ReadAt(bytes, encrypted_data_size, 4)
        marker == Unpack(4, marker_data)
        key_pos == encrypted_data_size + Len(marker_data)
        length_data == ReadAt(bytes, key_pos, 2)
        encryption_key_bytes == Unpack(2, length_data)
        local_pos == key_pos + Len(length_data)
        local_encryption_key == ReadAt(bytes, local_pos, encryption_key_bytes.value)
    IN IF marker_offset < last_int_loc - 6
       THEN IF marker.kind # "int"
            THEN [result |-> marker, pos |-> key_pos]
            ELSE IF marker.value = ENCRYPTION_KEY_MARKER
                 THEN IF encryption_key_bytes.kind # "int"
                      THEN [result |-> encryption_key_bytes, pos |-> local_pos]
                      ELSE IF KeySizeAllowed(encryption_key_bytes.value)
                           THEN [result |-> GearboxCrypt(encrypted_data_size,
                                                local_encryption_key, MASTER_KEY, 4096),
                                 pos |-> local_pos + Len(local_encryption_key)]
                           ELSE [result |-> GearboxEncryptionException, pos |-> local_pos]
                 ELSE [result |-> GearboxEncryptionException, pos |-> key_pos]
       ELSE [result |-> GearboxEncryptionException, pos |-> eof]

\* The read of the first record of the structure, which load and check_format
\* start with after seek(0): StructuredFileSection.load reads data_size bytes
\* through the archive's read and unpack checks their number.
ReadHeader(r, bytes) ==
    LET data == ReaderReadOp([r EXCEPT !.pos = 0], bytes, IntSize(HeaderSize))
    IN IF data.kind # "bytes" THEN data
       ELSE IF Len(data.bytes) # HeaderSize
            THEN [kind |-> "StructuredFileFormatException", pos |-> data.pos]
            ELSE data

\* GearboxEncryptedBigFile.load
ReaderLoad ==
    /\ reader.handle = "file"
    /\ LET enc == LoadEncryption(file)
       IN IF enc.result.kind # "GearboxCrypt"
          THEN /\ reader' = [reader EXCEPT !.pos = enc.pos]
               /\ rcall' = [op |-> "load", result |-> enc.result]
          ELSE LET wrapped == [reader EXCEPT !.crypto = enc.result, !.handle = "view"]
                   header == ReadHeader(wrapped, file)
               IN /\ reader' = [wrapped EXCEPT !.pos = header.pos,
                                               !.table_read = (header.kind = "bytes")]
                  /\ rcall' = [op |-> "load",
                               result |-> IF header.kind = "bytes" THEN None
                                          ELSE [kind |-> header.kind]]
    /\ UNCHANGED <<file, notReader>>

\* GearboxEncryptedBigFile.check_format
ReaderCheckFormat ==
    /\ reader.handle = "file"
    /\ LET enc == LoadEncryption(file)
       IN IF enc.result.kind # "GearboxCrypt"
          THEN /\ reader' = [reader EXCEPT !.pos = enc.pos]
               /\ rcall' = [op |-> "check_format", result |-> [kind |-> "False"]]
          ELSE LET keyed == [reader EXCEPT !.crypto = enc.result]
                   header == ReadHeader(keyed, file)
               IN /\ reader' = [keyed EXCEPT !.pos = header.pos]
                  /\ rcall' = [op |-> "check_format",
                               result |-> IF header.kind = "bytes"
                                          THEN [kind |-> "True"]
                                          ELSE [kind |-> "False"]]
    /\ UNCHANGED <<file, notReader>>

\* seek(offset) from the start of the handle.
ReaderSeek(offset) ==
    /\ reader.handle = "view" => offset <= reader.crypto.data_size
    /\ reader.pos # offset
    /\ reader' = [reader EXCEPT !.pos = offset]
    /\ rcall' = [op |-> "seek", result |-> None]
    /\ UNCHANGED <<file, notReader>>

\* GearboxEncryptedBigFile.read
ReaderRead(size) ==
    /\ LET out == ReaderReadOp(reader, file, size)
       IN /\ reader' = [reader EXCEPT !.pos = out.pos]
          /\ rcall' = [op |-> "read", start |-> reader.pos, size |-> size,
                       result |-> [f \in DOMAIN out \ {"pos"} |-> out[f]]]
    /\ UNCHANGED <<file, notReader>>

\* An archive opened on one of the files: StructuredFile.__init__ opens the
\* file and reads nothing.
ReaderInit ==
    /\ ArchiveIdle
    /\ CipherIdle
    /\ RecordIdle
    /\ file \in Files
    /\ reader = [crypto |-> None, handle |-> "file", pos |-> 0, table_read |-> FALSE]
    /\ rcall = NoCall

ReaderNext ==
    \/ ReaderLoad
    \/ ReaderCheckFormat
    \/ \E offset \in 0..(Len(file) + 1) : ReaderSeek(offset)
    \/ \E n \in -1..MaxRead : ReaderRead(IntSize(n))
    \/ ReaderRead(NoneSize)

ReaderSpec == ReaderInit /\ [][ReaderNext]_vars

(***************************************************************************)
(* Key derivation, step by step: GearboxCrypt._combine_keys,               *)
(* src/naabal/util/gbx_crypt.py                                            *)
(***************************************************************************)

\* The local keys whose derivation is followed: whole words, among them words
\* near 2^32.
DeriveKeys ==
    {<<>>, <<1, 2, 3, 4>>, <<254, 255, 255, 255>>, <<255, 255, 255, 255>>,
     <<0, 0, 0, 128, 214, 254, 255, 255>>}

\* The data sizes of the derivations, least significant byte first:
\* 0, 300, 2^31 and 2^32 - 1.
DeriveDataSizes == {<<>>, <<44, 1>>, <<0, 0, 0, 128>>, <<255, 255, 255, 255>>}

\* One sub-round b: bytes, the four inner rounds, combined_key[i + b].
DeriveSubRound ==
    /\ derive.pc = "run"
    /\ derive.b < 4
    /\ LET bytes == SubRoundBytes(derive.c, derive.data_size)
           c2 == InnerRounds(derive.c, bytes, derive.global_key, 1)
       IN derive' = [derive EXCEPT
                        !.c = c2,
                        !.b = derive.b + 1,
                        !.sub = [c |-> derive.c, bytes |-> bytes,
                                 indices |-> InnerIndices(derive.c, bytes,
                                                          derive.global_key, 1)],
                        !.combined_key = Append(derive.combined_key, CAST_TO_CHAR(c2))]
    /\ UNCHANGED notDerive

\* The next i of for i in xrange(0, self._key_size, 4): c = local_key[i / 4]
DeriveNextBlock ==
    /\ derive.pc = "run"
    /\ derive.b = 4
    /\ derive.i < Len(derive.local_key)
    /\ derive' = [derive EXCEPT !.i = derive.i + 1,
                                !.c = derive.local_key[derive.i + 1],
                                !.b = 0]
    /\ UNCHANGED notDerive

\* return combined_key
DeriveReturn ==
    /\ derive.pc = "run"
    /\ derive.b = 4
    /\ derive.i = Len(derive.local_key)
    /\ derive' = [derive EXCEPT !.pc = "done"]
    /\ UNCHANGED notDerive

\* _combine_keys entered with a local key, a master key and a data size, the
\* keys combined into words and the loop not yet begun.
DeriveInit ==
    /\ ArchiveIdle
    /\ ReaderIdle
    /\ RecordIdle
    /\ crypto = None
    /\ call = NoCall
    /\ stream = NoStream
    /\ \E local_key \in DeriveKeys, global_key \in MasterKeys,
          data_size \in DeriveDataSizes :
            derive = [pc |-> "run",
                      local_key |-> [k \in DOMAIN split_by(local_key, 4) |->
                                        COMBINE_BYTES(split_by(local_key, 4)[k])],
                      global_key |-> [k \in DOMAIN split_by(global_key, 4) |->
                                        COMBINE_BYTES(split_by(global_key, 4)[k])],
                      data_size |-> data_size,
                      i |-> 0, b |-> 4, c |-> <<>>,
                      sub |-> [c |-> <<>>, bytes |-> <<>>, indices |-> <<>>],
                      combined_key |-> <<>>]

DeriveNext ==
    \/ DeriveSubRound
    \/ DeriveNextBlock
    \/ DeriveReturn

DeriveSpec == DeriveInit /\ [][DeriveNext]_vars

(***************************************************************************)
(* Record framework: StructuredFileSection, src/naabal/formats/__init__.py *)
(***************************************************************************)

\* Bound: the largest repetition count ('len') of a field.
MaxFieldLen == 2

\* The bytes a struct format character takes: 'B' one, 'H' two.
FmtSize(fmt) == IF fmt = "B" THEN 1 ELSE 2

\* The number of values of a format character's type.
FmtRange(fmt) == IF fmt = "B" THEN 256 ELSE 65536

\* The decode and encode functions ('read', 'write') of the fields of the
\* model, each pair exact inverses: the identity, a shift by one within the
\* type's range, for repeated fields the reversal of the tuple, and a strict
\* identity whose read raises ValueError on the largest value of the type.
CodecsOf(len) == IF len = 1 THEN {"identity", "shift", "strict"}
                 ELSE {"identity", "shift", "strict", "reverse"}

Reverse(t) == [k \in DOMAIN t |-> t[Len(t) + 1 - k]]

\* member['read'](member_data) raises.
ReadRaises(member, member_data) ==
    /\ member.codec = "strict"
    /\ IF member.len = 1 THEN member_data = FmtRange(member.fmt) - 1
       ELSE \E k \in DOMAIN member_data : member_data[k] = FmtRange(member.fmt) - 1

\* member['read'](member_data)
FieldRead(member, member_data) ==
    IF member.codec \in {"identity", "strict"} THEN member_data
    ELSE IF member.codec = "reverse" THEN Reverse(member_data)
    ELSE IF member.len = 1 THEN (member_data + 1) % FmtRange(member.fmt)
    ELSE [k \in DOMAIN member_data |-> (member_data[k] + 1) % FmtRange(member.fmt)]

\* member['write'](value)
FieldWrite(member, value) ==
    IF member.codec \in {"identity", "strict"} THEN value
    ELSE IF member.codec = "reverse" THEN Reverse(value)
    ELSE IF member.len = 1 THEN (value - 1) % FmtRange(member.fmt)
    ELSE [k \in DOMAIN value |-> (value[k] - 1) % FmtRange(member.fmt)]

\* The fields a record type of the model is built from.
FieldsOfModel(key) ==
    UNION {{[key |-> key, fmt |-> fmt, len |-> len, codec |-> codec] :
                fmt \in {"B", "H"}, codec \in CodecsOf(len)} :
           len \in 1..MaxFieldLen}

RecordTypes ==
    {[ENDIANNESS |-> e, STRUCTURE |-> <<a, b>>] :
        e \in {"<", ">"}, a \in FieldsOfModel("a"), b \in FieldsOfModel("b")}

\* data_format: ENDIANNESS + ''.join(member['fmt'] * member['len']), as the
\* sequence of its format characters.
RECURSIVE FormatChars(_)
FormatChars(structure) ==
    IF structure = <<>> THEN <<>>
    ELSE [k \in 1..Head(structure).len |-> Head(structure).fmt]
            \o FormatChars(Tail(structure))

\* data_size: struct.calcsize(data_format)
RECURSIVE CalcSize(_)
CalcSize(chars) == IF chars = <<>> THEN 0 ELSE FmtSize(Head(chars)) + CalcSize(Tail(chars))

DataSize(type) == CalcSize(FormatChars(type.STRUCTURE))

\* One value of struct.unpack / struct.pack in the byte order of the type.
UnpackValue(endianness, bytes) ==
    IF endianness = "<" THEN FromDigits(bytes) ELSE FromDigits(Reverse(bytes))

PackValue(endianness, fmt, value) ==
    LET little == [k \in 1..FmtSize(fmt) |->
                        IF k = 1 THEN value % 256 ELSE value \div 256]
    IN IF endianness = "<" THEN little ELSE Reverse(little)

\* struct.unpack(data_format, data)
RECURSIVE StructUnpack(_, _, _)
StructUnpack(endianness, chars, data) ==
    IF chars = <<>> THEN <<>>
    ELSE <<UnpackValue(endianness, SubSeq(data, 1, FmtSize(Head(chars))))>>
            \o StructUnpack(endianness, Tail(chars),
                            SubSeq(data, FmtSize(Head(chars)) + 1, Len(data)))

\* struct.pack(data_format, *values): struct.error when the number of values
\* is not that of the format or a value is out of its type's range.
RECURSIVE PackAll(_, _, _)
PackAll(endianness, chars, values) ==
    IF chars = <<>> THEN <<>>
    ELSE PackValue(endianness, Head(chars), Head(values))
            \o PackAll(endianness, Tail(chars), Tail(values))

StructPack(endianness, chars, values) ==
    IF \/ Len(values) # Len(chars)
       \/ \E k \in DOMAIN values : values[k] \notin 0..(FmtRange(chars[k]) - 1)
    THEN [kind |-> "struct.error"]
    ELSE [kind |-> "bytes", bytes |-> PackAll(endianness, chars, values)]

\* A load that steps over every field as if it held one value.
NextIdxByOne(idx, member) == idx + 1

\* idx += member['len']
NextIdx(idx, member) == idx + member.len

\* The loop of StructuredFileSection.load over STRUCTURE, from field m on:
\* the values parsed, and when a member's read raised, the err caught with
\* the key and the member_data that logger.error was given.
RECURSIVE LoadMembers(_, _, _, _)
LoadMembers(structure, unpacked_data, m, idx) ==
    IF m > Len(structure) THEN [values |-> <<>>, raised |-> [err |-> "none"]]
    ELSE LET member == structure[m]
             member_data == IF member.len = 1 THEN unpacked_data[idx + 1]
                            ELSE SubSeq(unpacked_data, idx + 1, idx + member.len)
         IN IF ReadRaises(member, member_data)
            THEN [values |-> <<>>,
                  raised |-> [err |-> "ValueError", key |-> member.key,
                              member_data |-> member_data]]
            ELSE LET rest == LoadMembers(structure, unpacked_data, m + 1,
                                         NextIdx(idx, member))
                 IN [values |-> <<FieldRead(member, member_data)>> \o rest.values,
                     raised |-> rest.raised]

\* StructuredFileSection.load with unpack: the decoded _data, or
\* StructuredFileFormatException: with a message when handle.read(data_size)
\* is short, with the err caught when a member's read raised. args are the
\* arguments the exception is constructed with, logged what logger.error
\* was given, loaded the number of members in _data at the raise.
SectionDecode(type, handle_bytes) ==
    LET data == ReadAt(handle_bytes, 0, DataSize(type))
        chars == FormatChars(type.STRUCTURE)
        members == LoadMembers(type.STRUCTURE,
                               StructUnpack(type.ENDIANNESS, chars, data), 1, 0)
        values == members.values
    IN IF Len(data) # DataSize(type)
       THEN [kind |-> "StructuredFileFormatException",
             args |-> <<[what |-> "message", value |-> "Data length is not expected"]>>,
             logged |-> [err |-> "none"], loaded |-> 0]
       ELSE IF members.raised.err # "none"
       THEN [kind |-> "StructuredFileFormatException",
             args |-> <<[what |-> "err", value |-> members.raised.err]>>,
             logged |-> members.raised, loaded |-> Len(values)]
       ELSE [kind |-> "data",
             data |-> [key \in {type.STRUCTURE[m].key : m \in DOMAIN type.STRUCTURE} |->
                          values[CHOOSE m \in DOMAIN type.STRUCTURE :
                                    /\ type.STRUCTURE[m].key = key
                                    /\ \A n \in DOMAIN type.STRUCTURE :
                                          type.STRUCTURE[n].key = key => n <= m]]]

\* The loop of StructuredFileSection.save over STRUCTURE: unpacked_data.
RECURSIVE SaveMembers(_, _, _)
SaveMembers(structure, data, m) ==
    IF m > Len(structure) THEN <<>>
    ELSE LET struct_m == structure[m]
         IN (IF struct_m.len > 1 THEN FieldWrite(struct_m, data[struct_m.key])
             ELSE <<FieldWrite(struct_m, data[struct_m.key])>>)
                \o SaveMembers(structure, data, m + 1)

\* StructuredFileSection.save: the bytes it writes to the handle.
SectionEncode(type, data) ==
    StructPack(type.ENDIANNESS, FormatChars(type.STRUCTURE),
               SaveMembers(type.STRUCTURE, data, 1))

\* The raw values the buffers and the field values of the model are made of.
RawValues(fmt) == {0, FmtRange(fmt) - 1}

\* The semantic values of a field: what its decode function returns.
FieldValues(member) ==
    IF member.len = 1
    THEN {FieldRead(member, raw) :
            raw \in {r \in RawValues(member.fmt) : ~ReadRaises(member, r)}}
    ELSE {FieldRead(member, t) :
            t \in {r \in {[k \in 1..member.len |-> IF k = 1 THEN raw ELSE 1] :
                            raw \in RawValues(member.fmt)} : ~ReadRaises(member, r)}}

\* member['default']
DefaultOf(member) ==
    IF member.len = 1 THEN FieldRead(member, 1)
    ELSE FieldRead(member, [k \in 1..member.len |-> k])

\* StructuredFileSection._load_defaults
LoadDefaults(type) ==
    [key \in {type.STRUCTURE[m].key : m \in DOMAIN type.STRUCTURE} |->
        DefaultOf(CHOOSE member \in {type.STRUCTURE[m] : m \in DOMAIN type.STRUCTURE} :
                        member.key = key)]

\* The buffers of the model for a size: byte k is 3 * k, but for the byte at
\* one of the given places, which is 255 (place 0: no such byte).
Buffers(size, places) ==
    {[k \in 1..size |-> IF k = hot THEN 255 ELSE 3 * k] : hot \in places}

\* StructuredFileSection(handle): load from the handle.
SectionLoad ==
    /\ LET decoded == SectionDecode(rtype, wire)
       IN /\ section' = IF decoded.kind = "data" THEN decoded.data ELSE <<>>
          /\ scall' = [op |-> "load", fresh |-> decoded.kind = "data",
                       after |-> scall.op,
                       result |-> IF decoded.kind = "data" THEN [kind |-> "data"]
                                  ELSE decoded]
    /\ UNCHANGED <<rtype, wire, notRecord>>

\* StructuredFileSection.save(handle), the handle at its start.
SectionSave ==
    /\ section # <<>>
    /\ LET encoded == SectionEncode(rtype, section)
       IN /\ wire' = IF encoded.kind = "bytes"
                     THEN encoded.bytes \o SubSeq(wire, Len(encoded.bytes) + 1, Len(wire))
                     ELSE wire
          /\ scall' = [op |-> "save", fresh |-> encoded.kind = "bytes",
                       after |-> scall.op,
                       result |-> [kind |-> encoded.kind]]
    /\ UNCHANGED <<rtype, section, notRecord>>

\* StructuredFileSection.__setitem__ with a valid value of the field.
SectionSetItem(m, value) ==
    /\ section # <<>>
    /\ section[rtype.STRUCTURE[m].key] # value
    /\ section' = [section EXCEPT ![rtype.STRUCTURE[m].key] = value]
    /\ scall' = [op |-> "setitem", fresh |-> FALSE, after |-> scall.op,
                 result |-> None]
    /\ UNCHANGED <<rtype, wire, notRecord>>

\* A section of some record type, constructed without a handle (the defaults)
\* or about to be loaded from a handle holding a buffer of the declared size
\* or one byte short of it.
RecordInit ==
    /\ ArchiveIdle
    /\ CipherIdle
    /\ ReaderIdle
    /\ rtype \in RecordTypes
    /\ \/ /\ section = LoadDefaults(rtype)
          /\ wire = <<>>
          /\ scall = [op |-> "defaults", fresh |-> FALSE, after |-> "none",
                      result |-> None]
       \/ /\ section = <<>>
          /\ wire \in Buffers(DataSize(rtype), {0, 1, 2})
                        \cup Buffers(DataSize(rtype) - 1, {0})
          /\ scall = [op |-> "open", fresh |-> FALSE, after |-> "none",
                      result |-> None]

RecordNext ==
    \/ SectionLoad
    \/ SectionSave
    \/ \E m \in DOMAIN rtype.STRUCTURE :
          \E value \in FieldValues(rtype.STRUCTURE[m]) : SectionSetItem(m, value)

RecordSpec == RecordInit /\ [][RecordNext]_vars

\* A constructed archive has no _members of its own: the name resolves to the
\* class attribute.
Init ==
    /\ ArchiveIdle
    /\ CipherIdle
    /\ ReaderIdle
    /\ RecordIdle

Next ==
    \/ \E i \in Inst :
          \E table \in SeqUpTo(MemberSet, MaxMembers - TotalMembers + Len(lists[i])) :
              Load(i, table)
    \/ \E i \in Inst, m \in MemberSet, sort_after \in BOOLEAN : Add(i, m, sort_after)
    \/ \E i \in Inst, found \in SeqUpTo(MemberSet, MaxMembers - TotalMembers) : AddAll(i, found)
    \/ \E i \in Inst, filename \in NameSet : GetMember(i, filename)

Spec == Init /\ [][Next]_vars

\* The calls made on one archive while no other archive is in use.
NextSingle ==
    \/ \E table \in SeqUpTo(MemberSet, MaxMembers) : Load(1, table)
    \/ \E m \in MemberSet, sort_after \in BOOLEAN : Add(1, m, sort_after)
    \/ \E found \in SeqUpTo(MemberSet, MaxMembers) : AddAll(1, found)
    \/ \E filename \in NameSet : GetMember(1, filename)

SingleSpec == Init /\ [][NextSingle]_vars

(***************************************************************************)
(* Claims about the archive model                                          *)
(***************************************************************************)

\* get_filenames() of instance i in the state with list objects ls and bindings rf.
FilenamesIn(ls, rf, i) == NamesOf(ls[rf[i]])

\* A sequence of names in lexicographic order.
IsSorted(names) == \A k \in 1..(Len(names) - 1) : StrLeq(names[k], names[k + 1])

\* Two sequences of names holding every name the same number of times.
SameNames(s, t) == \A n \in NameSet : Count(s, n) = Count(t, n)

\* C1 as stated: after any sequence of add (sort_after true or false), add_all
\* and load calls on an archive, its get_filenames() is sorted and holds
\* exactly the names loaded into it plus the names added through it, each as
\* often as it was given.
C1_SortInvariantAlways ==
    /\ IsSorted(GetFilenames(last.inst))
    /\ \A n \in NameSet : Count(GetFilenames(last.inst), n) = given[last.inst][n]

\* C1 as amended: a call of add or add_all on an archive leaves in its
\* get_filenames() exactly the names it held before the call plus the added
\* names, none lost and none duplicated; the list is sorted when the call
\* returns if the call is add_all or add with sort_after true.
C1_AddKeepsNamesAndSortedWhenSorting ==
    [][last'.op \in {"add", "add_all"} =>
        /\ SameNames(FilenamesIn(lists', ref', last'.inst),
                     FilenamesIn(lists, ref, last'.inst) \o last'.names)
        /\ last'.sorts => IsSorted(FilenamesIn(lists', ref', last'.inst))]_vars

\* C1 witness: a sorting add put a name before a name already in the list.
C1_Witness ==
    /\ last.op = "add"
    /\ last.sorts
    /\ Len(GetFilenames(last.inst)) >= 2
    /\ GetFilenames(last.inst)[Len(GetFilenames(last.inst))] # last.names[1]

\* C2 as stated: a load, add or add_all on one archive instance never changes
\* what get_members() of another instance returns.
C2_MutationLeavesOthersAlone ==
    [][\A b \in Inst :
        (last'.op \in {"load", "add", "add_all"} /\ last'.inst # b)
            => lists'[ref'[b]] = lists[ref[b]]]_vars

\* C10: get_member(name) returns the first member of the list, in list order,
\* whose name is the given name, raises KeyError(name) when no member has it,
\* and leaves the member lists as they were.
C10_GetMemberFirstMatch ==
    [][last'.op = "get_member" =>
        LET s == lists[ref[last'.inst]]
            filename == last'.names[1]
            hits == {k \in DOMAIN s : s[k].name = filename}
        IN /\ lists' = lists /\ ref' = ref
           /\ hits = {} => last'.result = [kind |-> "KeyError", key |-> filename]
           /\ hits # {} =>
                \E k \in hits :
                    /\ \A j \in hits : k <= j
                    /\ last'.result = [kind |-> "member", member |-> s[k]]]_vars

\* C10 witness: a lookup of a name that two different members of the list have.
C10_Witness ==
    /\ last.op = "get_member"
    /\ last.result.kind = "member"
    /\ \E k \in DOMAIN GetMembers(last.inst) :
          /\ GetMembers(last.inst)[k].name = last.names[1]
          /\ GetMembers(last.inst)[k] # last.result.member

(***************************************************************************)
(* Claims about the stream cipher                                          *)
(***************************************************************************)

\* Byte k (from 1) of the key stream at absolute offset o: combined_key[(o + k - 1) mod key_size].
KeyByteAt(c, o, k) == c.encryption_key[((o + k - 1) % c.key_size) + 1]

\* C3 as stated: for every cipher instance, every byte string d and every
\* offset o >= 0, encrypt(d, o) returns a byte string and decrypt of it at
\* offset o returns d.
C3_InverseLawEveryCipher ==
    /\ call.op = "encrypt" => call.result.kind = "bytes"
    /\ call.op = "decrypt_encrypted" =>
            call.result = [kind |-> "bytes", bytes |-> call.plain]

\* C4 as stated: encrypt adds the key stream to every byte and decrypt
\* subtracts it.
C4_EncryptAddsDecryptSubtracts ==
    /\ (call.op = "encrypt" /\ call.result.kind = "bytes") =>
            \A k \in DOMAIN call.data :
                call.result.bytes[k] =
                    (call.data[k] + KeyByteAt(crypto, call.offset, k)) % 256
    /\ (call.op \in {"decrypt", "decrypt_encrypted"} /\ call.result.kind = "bytes") =>
            \A k \in DOMAIN call.data :
                call.result.bytes[k] =
                    (call.data[k] - KeyByteAt(crypto, call.offset, k)) % 256

\* C4 as amended: with a key of at least one byte, encrypt(d, o) returns a byte
\* string as long as d whose byte k is (d[k] - combined_key[(o + k) mod
\* key_size]) mod 256, and decrypt(d, o) one whose byte k is (d[k] +
\* combined_key[(o + k) mod key_size]) mod 256: encrypt subtracts the key
\* stream and decrypt adds it. With an empty key a call on an empty d returns
\* the empty string and a call on a non-empty d raises ZeroDivisionError.
C4_EncryptSubtractsDecryptAdds ==
    call.op \in {"encrypt", "decrypt", "decrypt_encrypted"} =>
        IF crypto.key_size = 0
        THEN call.result = IF call.data = <<>>
                           THEN [kind |-> "bytes", bytes |-> <<>>]
                           ELSE [kind |-> "ZeroDivisionError"]
        ELSE /\ call.result.kind = "bytes"
             /\ Len(call.result.bytes) = Len(call.data)
             /\ \A k \in DOMAIN call.data :
                    call.result.bytes[k] =
                        (call.data[k]
                            + (IF call.op = "encrypt" THEN -1 ELSE 1)
                                * KeyByteAt(crypto, call.offset, k)) % 256

\* C4 witness: an encrypt at an offset past 0 of a byte smaller than its key
\* byte, so that the subtraction wraps around.
C4_Witness ==
    /\ call.op = "encrypt"
    /\ call.offset > 0
    /\ crypto.key_size > 0
    /\ \E k \in DOMAIN call.data : call.data[k] < KeyByteAt(crypto, call.offset, k)

\* What one call of decrypt or encrypt returns on all the input from the
\* stream's start position on, at absolute offset (offset + start position).
WholeCall(st) ==
    LET rest == IF st.start_pos >= Len(st.input) THEN <<>>
                ELSE SubSeq(st.input, st.start_pos + 1, Len(st.input))
    IN IF st.kind = "decrypt_stream"
       THEN CipherDecrypt(crypto, rest, st.offset_arg + st.start_pos)
       ELSE CipherEncrypt(crypto, rest, st.offset_arg + st.start_pos)

\* C9: whatever the chunk size (>= 1), the input, the stream's start position
\* and the offset argument, decrypt_stream (encrypt_stream) has written, when
\* it returns, exactly the bytes one decrypt (encrypt) call returns on the
\* whole remaining input at absolute offset (offset + start position), and
\* returns the number of bytes consumed; it raises only where that one call
\* raises, with the same error.
C9_StreamEqualsWholeCall ==
    /\ stream.pc = "returned" =>
            /\ WholeCall(stream) = [kind |-> "bytes", bytes |-> stream.output]
            /\ stream.result = Len(stream.output)
            /\ stream.result =
                    (IF stream.start_pos >= Len(stream.input) THEN 0
                     ELSE Len(stream.input) - stream.start_pos)
    /\ stream.pc = "raised" => WholeCall(stream) = stream.error

\* C9 witness: a stream that started past position 0 with an offset argument
\* past 0 and took more than one chunk.
C9_Witness ==
    /\ stream.pc = "returned"
    /\ stream.start_pos > 0
    /\ stream.offset_arg > 0
    /\ crypto.key_size > 0
    /\ stream.result > crypto.chunk_size

(***************************************************************************)
(* Claims about the encrypted archive reader                               *)
(***************************************************************************)

\* The backptr of a file: its last four bytes as a little-endian integer.
Backptr(bytes) == FromDigits(SubSeq(bytes, Len(bytes) - 3, Len(bytes)))

\* C5 as stated: once the key is loaded, whatever the cursor position and the
\* size asked for, a read that starts below encrypted_region_size returns only
\* bytes from below it, each the cipher's decrypt of the file's byte at the
\* same absolute offset, and a read that starts at or past it returns the
\* file's bytes unmodified.
C5_ReadNeverCrossesBoundary ==
    (rcall.op = "read" /\ reader.crypto.kind = "GearboxCrypt"
        /\ rcall.result.kind = "bytes") =>
        LET out == rcall.result.bytes
            start == rcall.start
        IN IF start < reader.crypto.data_size
           THEN /\ start + Len(out) <= reader.crypto.data_size
                /\ \A k \in DOMAIN out :
                      CipherDecrypt(reader.crypto, <<file[start + k]>>, start + k - 1)
                          = [kind |-> "bytes", bytes |-> <<out[k]>>]
           ELSE out = SubSeq(file, start + 1, start + Len(out))

\* C6 as stated: opening a file whose backptr is 0 to 9, whatever its length,
\* fails with the encryption-format error and constructs no cipher.
C6_SmallBackptrRejected ==
    (rcall.op = "load" /\ Len(file) >= 4 /\ Backptr(file) \in 0..9) =>
        /\ rcall.result = GearboxEncryptionException
        /\ reader.crypto = None

\* C7: when the backptr passes the validity check, opening fails with the
\* encryption-format error if the 4-byte marker read at EOF - backptr is not
\* 0x00000000 or if the key length read after a good marker exceeds 1024; the
\* archive's cipher state is then unset and no member table has been read. A
\* key length of 1024 does not fail with that error.
C7_MarkerAndKeyLengthRejected ==
    (rcall.op = "load" /\ Len(file) >= 4 /\ Backptr(file) < (Len(file) - 4) - 6) =>
        LET at == Len(file) - Backptr(file)
            has_marker == at + 4 <= Len(file)
            marker == FromDigits(SubSeq(file, at + 1, at + 4))
            has_length == at + 6 <= Len(file)
            key_length == FromDigits(SubSeq(file, at + 5, at + 6))
        IN /\ ((has_marker /\ marker # 0)
                \/ (has_length /\ marker = 0 /\ key_length > 1024)) =>
                    /\ rcall.result = GearboxEncryptionException
                    /\ reader.crypto = None
                    /\ ~reader.table_read
           /\ (has_length /\ marker = 0 /\ key_length = 1024) =>
                    rcall.result # GearboxEncryptionException

\* C7 witness: a load that failed on a key length of 1025 after a good marker.
C7_Witness ==
    /\ rcall.op = "load"
    /\ Len(file) >= 10
    /\ Backptr(file) < (Len(file) - 4) - 6
    /\ Backptr(file) >= 10
    /\ FromDigits(SubSeq(file, Len(file) - Backptr(file) + 1,
                         Len(file) - Backptr(file) + 4)) = 0
    /\ FromDigits(SubSeq(file, Len(file) - Backptr(file) + 5,
                         Len(file) - Backptr(file) + 6)) = 1025
    /\ rcall.result = GearboxEncryptionException

\* C8: record round trip. A save that follows a load of a buffer of the
\* declared size, the section untouched in between, writes back exactly the
\* bytes that were read (encode(decode(buffer)) = buffer); a load that follows
\* a save of a section holding defaults or valid values set by the caller
\* yields the same field values (decode(encode(instance)) = instance). Both
\* succeed, for fields of repetition count 1 and of repetition count > 1.
C8_RecordRoundTrip ==
    [][/\ (scall'.op = "save" /\ scall.op = "load" /\ scall.fresh)
            => (scall'.result.kind = "bytes" /\ wire' = wire)
       /\ (scall'.op = "load" /\ scall.op = "save" /\ scall.fresh)
            => (scall'.result.kind = "data" /\ section' = section)]_vars

\* A section with a reversed field of repetition count > 1 after a shifted
\* field of count 1, holding values other than its defaults, has been saved
\* and loaded back.
C8_Witness ==
    /\ scall.op = "load"
    /\ scall.after = "save"
    /\ scall.fresh
    /\ rtype.STRUCTURE # <<>>
    /\ rtype.STRUCTURE[1].len = 1
    /\ rtype.STRUCTURE[1].codec = "shift"
    /\ rtype.STRUCTURE[2].len > 1
    /\ rtype.STRUCTURE[2].codec = "reverse"
    /\ rtype.ENDIANNESS = ">"
    /\ section # LoadDefaults(rtype)

\* C11: when a field's decode function fails while a record is loaded, the
\* load fails with StructuredFileFormatException, the exception's value
\* carries the key of the failing field and the raw value that was being
\* decoded, and no field declared after the failing one is decoded.
C11_DecodeFailureCarriesKeyAndRaw ==
    (scall.op = "load" /\ scall.result.kind # "data"
        /\ scall.result.logged.err # "none")
    => /\ scall.result.kind = "StructuredFileFormatException"
       /\ \E k \in DOMAIN scall.result.args :
             /\ scall.result.args[k].what = "key"
             /\ scall.result.args[k].value = scall.result.logged.key
       /\ \E k \in DOMAIN scall.result.args :
             /\ scall.result.args[k].what = "member_data"
             /\ scall.result.args[k].value = scall.result.logged.member_data
       /\ \A m \in DOMAIN rtype.STRUCTURE :
             rtype.STRUCTURE[m].key = scall.result.logged.key
                => scall.result.loaded = m - 1

\* C12: before the key is loaded (_crypto still None) a read on the encrypted
\* archive does not fail: it returns the bytes of the underlying file from the
\* cursor on, unmodified.
C12_ReadBeforeKeyPassesThrough ==
    (rcall.op = "read" /\ reader.crypto.kind = "None") =>
        /\ rcall.result.kind = "bytes"
        /\ rcall.result.bytes
              = SubSeq(file, rcall.start + 1, rcall.start + Len(rcall.result.bytes))

\* C13: for every local key the trailer protocol accepts (0 to 1024 bytes,
\* multiples of 4 or not), constructing the cipher succeeds and its combined
\* key has as many bytes as the local key.
C13_CombinedKeyHasLocalKeyLength ==
    crypto # None =>
        /\ crypto.kind = "GearboxCrypt"
        /\ Len(crypto.encryption_key) = crypto.key_size

\* The little-endian bytes of the 32-bit left rotation by 8 bits of
\* (c + data_size) mod 2^32.
Rotl32Bytes(c, data_size) ==
    LET sum == AddInt(c, data_size, 0)
    IN <<Digit(sum, 4), Digit(sum, 1), Digit(sum, 2), Digit(sum, 3)>>

\* C14: in every sub-round of the key derivation the four decomposed bytes
\* are the little-endian bytes of the 32-bit left rotation by 8 bits of
\* (c + data_size) mod 2^32, also when c + data_size is 2^32 or more, and
\* every substitution-table index of the inner rounds is within 0..255.
C14_SubRoundBytesAreRotation32 ==
    (derive.pc # "idle" /\ derive.sub.bytes # <<>>) =>
        /\ derive.sub.bytes = Rotl32Bytes(derive.sub.c, derive.data_size)
        /\ \A j \in DOMAIN derive.sub.indices : derive.sub.indices[j] \in 0..255

====
